---- MODULE Spec2Model ----
(***************************************************************************)
(* Model of data_extraction.py: the station resolver                       *)
(* (pick_station_for_icao), the retrying fetcher (fetch) and the           *)
(* orchestration in main().  Text and bytes are sequences of one-character *)
(* strings, so that strip, upper, zfill, isdigit, slicing and int() are    *)
(* computed character by character as Python computes them.                *)
(***************************************************************************)
EXTENDS Integers, Sequences, FiniteSets, TLC

\* ------------------------------------------------------------ bounds
\* Number of target years modelled (the program has 6: range(2019, 2025)).
NumYears == 2
\* Longest catalog handed to pick_station_for_icao in SpecPick.
MaxRows == 2

\* ------------------------------------------------- program constants
RETRIES == 3
BACKOFF == 2

KDAL == <<"K","D","A","L">>
KMDW == <<"K","M","D","W">>
\* The first two of the ten configured airport codes.
ICAOS == <<KDAL, KMDW>>
YEARS == 2019..(2019 + NumYears - 1)
OUTDIR == "downloads_ncei"
ISD_HISTORY_URL == <<"https://www.ncei.noaa.gov/pub/data/noaa/isd-history.csv">>
BASE == "https://www.ncei.noaa.gov/data/global-hourly/access"

\* --------------------------------------------------- Python builtins
DigitChar == <<"0","1","2","3","4","5","6","7","8","9">>
Digits == {DigitChar[i] : i \in 1..10}
DigitVal(c) == (CHOOSE i \in 1..10 : DigitChar[i] = c) - 1
Whitespace == {" ", "\n", "\t", "\r"}

\* min(YEARS), max(YEARS)
Min(S) == CHOOSE x \in S : \A y \in S : x <= y
Max(S) == CHOOSE x \in S : \A y \in S : x >= y

\* s[a:b] with Python's clamping (0-based, half-open)
Slice(s, a, b) ==
  LET hi == IF b < Len(s) THEN b ELSE Len(s)
  IN IF a >= hi THEN <<>> ELSE SubSeq(s, a + 1, hi)

RECURSIVE LStrip(_)
LStrip(s) == IF s # <<>> /\ Head(s) \in Whitespace THEN LStrip(Tail(s)) ELSE s
RECURSIVE RStrip(_)
RStrip(s) ==
  IF s # <<>> /\ s[Len(s)] \in Whitespace THEN RStrip(SubSeq(s, 1, Len(s) - 1)) ELSE s
\* str.strip() / bytes.strip()
Strip(s) == RStrip(LStrip(s))

LowerToUpper ==
  [c \in {"k","d","a","l","m","w"} |->
     CASE c = "k" -> "K" [] c = "d" -> "D" [] c = "a" -> "A"
       [] c = "l" -> "L" [] c = "m" -> "M" [] c = "w" -> "W"]
\* str.upper()
Upper(s) == [i \in 1..Len(s) |-> IF s[i] \in DOMAIN LowerToUpper THEN LowerToUpper[s[i]] ELSE s[i]]

\* str.isdigit(): non-empty and every character a digit
IsDigit(s) == Len(s) > 0 /\ \A i \in 1..Len(s) : s[i] \in Digits

RECURSIVE DecVal(_)
DecVal(s) == IF s = <<>> THEN 0 ELSE 10 * DecVal(SubSeq(s, 1, Len(s) - 1)) + DigitVal(s[Len(s)])

\* int(s): surrounding whitespace and one sign are accepted; anything else raises
IntBody(s) == LET t == Strip(s) IN IF t # <<>> /\ t[1] \in {"+", "-"} THEN Tail(t) ELSE t
IntOk(s) == IsDigit(IntBody(s))
IntVal(s) ==
  LET t == Strip(s) IN IF t # <<>> /\ t[1] = "-" THEN 0 - DecVal(IntBody(s)) ELSE DecVal(IntBody(s))

RECURSIVE Zeros(_)
Zeros(n) == IF n <= 0 THEN <<>> ELSE <<"0">> \o Zeros(n - 1)
\* str.zfill(w): pads on the left, after a leading sign
ZFill(s, w) ==
  IF Len(s) >= w THEN s
  ELSE IF s # <<>> /\ s[1] \in {"+", "-"} THEN <<s[1]>> \o Zeros(w - Len(s)) \o Tail(s)
  ELSE Zeros(w - Len(s)) \o s

RECURSIVE Str(_)
\* str(n) for n >= 0, as used by the f-strings
Str(n) == IF n < 10 THEN <<DigitChar[n + 1]>> ELSE Str(n \div 10) \o <<DigitChar[(n % 10) + 1]>>

\* column names of the catalog the program reads
H_ICAO == <<"I","C","A","O">>
H_USAF == <<"U","S","A","F">>
H_WBAN == <<"W","B","A","N">>
H_NAME == <<"S","T","A","T","I","O","N","_","N","A","M","E">>
H_BEGIN == <<"B","E","G","I","N">>
H_END == <<"E","N","D">>

\* dict.get(key, "") on a catalog row
Get(row, key) == IF key \in DOMAIN row THEN row[key] ELSE <<>>

\* ------------------------------------------- pick_station_for_icao
\* parse(x)[0]: the year, 0 when x is blank or any of the three int() calls raises
parse(x) ==
  IF x = <<>> THEN 0
  ELSE IF IntOk(Slice(x, 0, 4)) /\ IntOk(Slice(x, 4, 6)) /\ IntOk(Slice(x, 6, 8))
       THEN IntVal(Slice(x, 0, 4))
       ELSE 0

y_min == Min(YEARS)
y_max == Max(YEARS)

IcaoMatches(row, icao) == Upper(Strip(Get(row, H_ICAO))) = icao

\* the overlap test of the candidate loop
Overlaps(row) ==
  LET by == parse(Get(row, H_BEGIN))
      ey0 == parse(Get(row, H_END))
      ey == IF ey0 = 0 THEN 9999 ELSE ey0
  IN ~(ey < y_min \/ by > y_max)

\* candidates, as the indices of the rows appended, in catalog order
Candidates(rows, icao) ==
  SelectSeq([i \in 1..Len(rows) |-> i],
            LAMBDA i : IcaoMatches(rows[i], icao) /\ Overlaps(rows[i]))

keyfun(r) ==
  LET end == Get(r, H_END)
      endy == IF end # <<>> /\ IsDigit(Slice(end, 0, 4)) THEN DecVal(Slice(end, 0, 4)) ELSE 9999
      begin == Get(r, H_BEGIN)
      beginy == IF begin # <<>> /\ IsDigit(Slice(begin, 0, 4)) THEN DecVal(Slice(begin, 0, 4)) ELSE 0
  IN <<endy, beginy>>

\* tuple comparison a > b
KeyGreater(a, b) == a[1] > b[1] \/ (a[1] = b[1] /\ a[2] > b[2])

RECURSIVE InsertDescTies(_, _, _)
\* mutant: an equal key goes in front (an ascending sort read backwards)
InsertDescTies(sorted, i, rows) ==
  IF sorted = <<>> THEN <<i>>
  ELSE IF ~KeyGreater(keyfun(rows[Head(sorted)]), keyfun(rows[i]))
       THEN <<i>> \o sorted
       ELSE <<Head(sorted)>> \o InsertDescTies(Tail(sorted), i, rows)

RECURSIVE InsertDesc(_, _, _)
\* insert index i into the descending list after every element whose key is >= its own
InsertDesc(sorted, i, rows) ==
  IF sorted = <<>> THEN <<i>>
  ELSE IF KeyGreater(keyfun(rows[i]), keyfun(rows[Head(sorted)]))
       THEN <<i>> \o sorted
       ELSE <<Head(sorted)>> \o InsertDesc(Tail(sorted), i, rows)

RECURSIVE SortedDescFrom(_, _, _)
SortedDescFrom(cands, acc, rows) ==
  IF cands = <<>> THEN acc
  ELSE SortedDescFrom(Tail(cands), InsertDesc(acc, Head(cands), rows), rows)
\* sorted(candidates, key=keyfun, reverse=True): stable, equal keys keep their order
SortedDesc(cands, rows) == SortedDescFrom(cands, <<>>, rows)

\* index of best in rows; 0 when there is no candidate
BestIndex(rows, icao) ==
  LET c == Candidates(rows, icao) IN IF c = <<>> THEN 0 ELSE SortedDesc(c, rows)[1]

None == [found |-> FALSE, icao |-> <<>>, usaf |-> <<>>, wban |-> <<>>,
         station_id |-> <<>>, name |-> <<>>, begin |-> <<>>, end |-> <<>>]

\* mutant: when best is malformed the next candidate in rank order is tried
PickNextValid(rows, icao) ==
  LET sorted == SortedDesc(Candidates(rows, icao), rows)
      valid == SelectSeq(sorted, LAMBDA k :
                 /\ IsDigit(ZFill(Strip(Get(rows[k], H_USAF)), 6))
                 /\ IsDigit(ZFill(Strip(Get(rows[k], H_WBAN)), 5)))
  IN IF valid = <<>> THEN None
     ELSE LET best == rows[valid[1]]
              usaf == ZFill(Strip(Get(best, H_USAF)), 6)
              wban == ZFill(Strip(Get(best, H_WBAN)), 5)
          IN [found |-> TRUE, icao |-> icao, usaf |-> usaf, wban |-> wban,
              station_id |-> usaf \o wban,
              name |-> Strip(Get(best, H_NAME)),
              begin |-> Get(best, H_BEGIN), end |-> Get(best, H_END)]

pick_station_for_icao(rows, icao) ==
  LET b == BestIndex(rows, icao) IN
  IF b = 0 THEN None
  ELSE LET best == rows[b]
           usaf == ZFill(Strip(Get(best, H_USAF)), 6)
           wban == ZFill(Strip(Get(best, H_WBAN)), 5)
       IN IF ~(IsDigit(usaf) /\ IsDigit(wban)) THEN None
          ELSE [found |-> TRUE, icao |-> icao, usaf |-> usaf, wban |-> wban,
                station_id |-> usaf \o wban,
                name |-> Strip(Get(best, H_NAME)),
                begin |-> Get(best, H_BEGIN), end |-> Get(best, H_END)]

\* ------------------------------------------------ load_isd_history
RECURSIVE SplitOn(_, _)
\* the pieces of s between occurrences of sep (always at least one piece)
SplitOn(s, sep) ==
  IF \A i \in 1..Len(s) : s[i] # sep THEN <<s>>
  ELSE LET k == CHOOSE i \in 1..Len(s) : s[i] = sep /\ \A j \in 1..(i - 1) : s[j] # sep
       IN <<SubSeq(s, 1, k - 1)>> \o SplitOn(SubSeq(s, k + 1, Len(s)), sep)

\* str.splitlines(): no line for an empty text, none after a final newline
SplitLines(s) ==
  IF s = <<>> THEN <<>>
  ELSE LET parts == SplitOn(s, "\n")
       IN IF parts[Len(parts)] = <<>> THEN SubSeq(parts, 1, Len(parts) - 1) ELSE parts

\* csv.reader on one unquoted line: an empty line is the empty row
CsvCells(line) == IF line = <<>> THEN <<>> ELSE SplitOn(line, ",")

\* dict(zip(fieldnames, row)); the catalogs modelled are rectangular, so restkey and
\* restval never arise (a missing cell reads as "")
DictRow(fieldnames, cells) ==
  [k \in {fieldnames[i] : i \in 1..Len(fieldnames)} |->
     LET i == CHOOSE j \in 1..Len(fieldnames) :
                fieldnames[j] = k /\ \A l \in (j + 1)..Len(fieldnames) : fieldnames[l] # k
     IN IF i <= Len(cells) THEN cells[i] ELSE <<>>]

\* rows = [row for row in csv.DictReader(text)]: the first line names the fields,
\* empty lines are skipped
DictReader(text) ==
  IF text = <<>> THEN <<>>
  ELSE LET fieldnames == CsvCells(text[1])
           data == SelectSeq(Tail(text), LAMBDA l : CsvCells(l) # <<>>)
       IN [i \in 1..Len(data) |-> DictRow(fieldnames, CsvCells(data[i]))]

\* raw.decode("utf-8").splitlines() -> csv.DictReader -> rows
ParseCatalog(raw) == DictReader(SplitLines(raw))

\* ------------------------------------------------------------ values
\* bytes | None
NoBytes == [some |-> FALSE, data |-> <<>>]
Some(d) == [some |-> TRUE, data |-> d]
\* truthiness of bytes | None: "if content", "if not raw"
Truthy(b) == b.some /\ Len(b.data) > 0

\* a file of the output directory, or its absence
NoFile == [exists |-> FALSE, data |-> <<>>]
File(d) == [exists |-> TRUE, data |-> d]

\* mutant: station and year change places in the URL
UrlStationFirst(year, sid) == <<BASE, "/", sid, "/", Str(year), ".csv">>
\* f"{BASE}/{year}/{sid}.csv"
Url(year, sid) == <<BASE, "/", Str(year), "/", sid, ".csv">>
\* os.path.join(OUTDIR, f"{icao}_{year}.csv")
OutFn(icao, year) == <<OUTDIR, "/", icao, "_", Str(year), ".csv">>

Pairs == {<<ICAOS[i], y>> : i \in 1..Len(ICAOS), y \in YEARS}
Paths == {OutFn(p[1], p[2]) : p \in Pairs}

\* ---------------------------------------------------- the environment
\* catalog rows as the remote server holds them, and their CSV text
Header == <<H_USAF, H_WBAN, H_NAME, H_ICAO, H_BEGIN, H_END>>
MkRow(usaf, wban, name, icao, begin, end) ==
  (H_USAF :> usaf) @@ (H_WBAN :> wban) @@ (H_NAME :> name) @@ (H_ICAO :> icao)
    @@ (H_BEGIN :> begin) @@ (H_END :> end)

RECURSIVE Join(_, _)
Join(parts, sep) ==
  IF parts = <<>> THEN <<>>
  ELSE IF Len(parts) = 1 THEN parts[1]
  ELSE parts[1] \o <<sep>> \o Join(Tail(parts), sep)
CsvText(rows) ==
  Join(<<Join(Header, ",")>> \o [i \in 1..Len(rows) |-> Join([j \in 1..Len(Header) |-> rows[i][Header[j]]], ",")], "\n")
    \o <<"\n">>

\* YYYYMMDD text of a date
Date(y, m, d) == ZFill(Str(y), 4) \o ZFill(Str(m), 2) \o ZFill(Str(d), 2)

RowDal == MkRow(<<"1","3","9","6","0">>, <<"1","3","9","6","0">>, <<"D","A","L">>, KDAL, Date(1973, 1, 1), <<>>)
RowMdw == MkRow(<<"7","2","5">>, <<"9","9","9","9","9">>, <<"M","D","W">>, <<"k","m","d","w"," ">>, Date(2000, 1, 1), Date(2024, 12, 31))
RowDalOld == MkRow(<<"7","2","2","5","8","3">>, <<"9","3","9","2","8">>, <<"D","A","L">>, KDAL, Date(1943, 1, 1), Date(1972, 12, 31))
RowDalBad == MkRow(<<"A","0","0","0","1">>, <<"0","0","1","2","3">>, <<"D","A","L">>, KDAL, Date(1973, 1, 1), <<>>)

CatalogBodies ==
  { CsvText(<<RowDalOld, RowDal, RowMdw>>),
    CsvText(<<RowDalOld, RowMdw>>),
    CsvText(<<RowDalBad>>),
    CsvText(<<>>) }

\* the observation file the remote archive holds at a URL: it names the year and the
\* station, with whitespace around
RemoteFile(u) == <<" ">> \o u[3] \o <<",">> \o u[5] \o <<"\n">>
BlankBodies == {<<>>, <<" ", "\n">>}

\* what one requests.get(url, timeout=TIMEOUT) can produce: a response, or an exception
Response(status, content) == [error |-> FALSE, status_code |-> status, content |-> content]
TransportError == [error |-> TRUE, status_code |-> 0, content |-> <<>>]
Responses(u) ==
  LET bodies == IF u = ISD_HISTORY_URL THEN CatalogBodies ELSE {RemoteFile(u)}
      sample == CHOOSE b \in bodies : TRUE
  IN {Response(200, b) : b \in bodies \cup BlankBodies}
       \cup {Response(404, sample), Response(500, <<>>), TransportError}

\* ------------------------------------------------------------- state
VARIABLES
  pc,          \* where main() is: start, fetch_get, fetch_sleep, fetch_ret, resolve,
               \* download, done, fatal (off: main() is not running)
  run,         \* 1 in the first run of the program, 2 in a second run against the
               \* same output directory
  rows,        \* rows returned by load_isd_history
  mapping,     \* the dict mapping, as its values in insertion order
  i,           \* position of "for icao in ICAOS"
  m,           \* position of "for icao, info in mapping.items()"
  year,        \* position of "for year in YEARS"
  disk,        \* the output directory: path -> file
  url,         \* fetch's argument
  attempt,     \* fetch's loop variable
  ret,         \* fetch's return value
  caller,      \* who called fetch: load or download
  gets,        \* history: HTTP GETs issued by the current call of fetch
  waits,       \* history: the sleeps of the current call of fetch, in order
  firstGood,   \* history: first response of the current call with status 200 and a
               \* body that is not all whitespace, and the attempt that got it
  disk0,       \* history: the output directory when the current run started
  outcome,     \* history: pair -> none, Saved, Skipped, Failed in the current run
  fetched,     \* history: pairs an observation GET was issued for in the current run
  savedBefore, \* history: pairs whose outcome was Saved in the previous run
  picked,      \* history: <<icao, value returned by pick_station_for_icao>> per call
               \* made in the current run, in order
  p_pc,        \* SpecPick: call, returned (off outside SpecPick)
  p_rows,      \* SpecPick: argument rows
  p_icao,      \* SpecPick: argument icao
  p_best,      \* SpecPick: index in rows of best, 0 if none
  p_info       \* SpecPick: the value returned

mainVars == <<pc, run, rows, mapping, i, m, year, disk, url, attempt, ret, caller,
              gets, waits, firstGood, disk0, outcome, fetched, savedBefore, picked>>
pickVars == <<p_pc, p_rows, p_icao, p_best, p_info>>
vars == <<mainVars, pickVars>>

OldData == <<"o","l","d">>
NoGood == [at |-> 0, content |-> <<>>]
NoOutcome == [p \in Pairs |-> "none"]
NoUrl == <<>>

\* ------------------------------------------------------------- fetch
\* mutant: the body is not looked at
AttemptSucceedsAnyBody(resp) == resp.status_code = 200
\* r.status_code == 200 and r.content.strip()
AttemptSucceeds(resp) == resp.status_code = 200 /\ Strip(resp.content) # <<>>
\* mutant: range(1, RETRIES+2)
LoopContinuesOneMore(a) == a < RETRIES + 1
\* for attempt in range(1, RETRIES+1): is there a next iteration
LoopContinues(a) == a < RETRIES
\* the argument of time.sleep
SleepSeconds(a) == BACKOFF * a

\* the call fetch(u)
CallFetch(u, who) ==
  /\ pc' = "fetch_get"
  /\ url' = u
  /\ attempt' = 1
  /\ ret' = NoBytes
  /\ caller' = who
  /\ gets' = 0
  /\ waits' = <<>>
  /\ firstGood' = NoGood

\* fetch is not running: its locals are gone
FetchIdle ==
  /\ url' = NoUrl
  /\ attempt' = 0
  /\ ret' = NoBytes
  /\ caller' = "none"
  /\ gets' = 0
  /\ waits' = <<>>
  /\ firstGood' = NoGood

CurrentPair == <<mapping[m].icao, year>>

\* one pass through the try block: the GET, then return or fall to the sleep
FetchAttempt ==
  /\ pc = "fetch_get"
  /\ \E resp \in Responses(url) :
       /\ gets' = gets + 1
       /\ firstGood' =
            IF firstGood.at = 0 /\ ~resp.error /\ resp.status_code = 200
               /\ \E k \in 1..Len(resp.content) : resp.content[k] \notin Whitespace
            THEN [at |-> gets + 1, content |-> resp.content]
            ELSE firstGood
       /\ IF ~resp.error /\ AttemptSucceeds(resp)
          THEN pc' = "fetch_ret" /\ ret' = Some(resp.content)
          ELSE pc' = "fetch_sleep" /\ ret' = ret
  /\ fetched' = IF caller = "download" THEN fetched \cup {CurrentPair} ELSE fetched
  /\ UNCHANGED <<run, rows, mapping, i, m, year, disk, url, attempt, caller, waits,
                 disk0, outcome, savedBefore, picked, pickVars>>

\* time.sleep(BACKOFF * attempt), then the next iteration or "return None"
FetchSleep ==
  /\ pc = "fetch_sleep"
  /\ waits' = Append(waits, SleepSeconds(attempt))
  /\ IF LoopContinues(attempt)
     THEN pc' = "fetch_get" /\ attempt' = attempt + 1 /\ ret' = ret
     ELSE pc' = "fetch_ret" /\ attempt' = attempt /\ ret' = NoBytes
  /\ UNCHANGED <<run, rows, mapping, i, m, year, disk, url, caller, gets, firstGood,
                 disk0, outcome, fetched, savedBefore, picked, pickVars>>

\* -------------------------------------------------------------- main
\* os.makedirs, then load_isd_history up to its call of fetch
Start ==
  /\ pc = "start"
  /\ CallFetch(ISD_HISTORY_URL, "load")
  /\ UNCHANGED <<run, rows, mapping, i, m, year, disk, disk0, outcome, fetched,
                 savedBefore, picked, pickVars>>

\* mutant: the failure is not raised
CatalogMissingIgnored(raw) == FALSE
\* "if not raw: raise"
CatalogMissing(raw) == ~Truthy(raw)

\* load_isd_history after fetch returned: raise, or parse and return to main
LoadReturn ==
  /\ pc = "fetch_ret" /\ caller = "load"
  /\ IF CatalogMissing(ret)
     THEN pc' = "fatal" /\ UNCHANGED <<rows, mapping, i>>
     ELSE pc' = "resolve" /\ rows' = ParseCatalog(ret.data) /\ mapping' = <<>> /\ i' = 1
  /\ FetchIdle
  /\ UNCHANGED <<run, m, year, disk, disk0, outcome, fetched, savedBefore, picked, pickVars>>

\* mutant: a found station is put in front of the mapping
ResolveStepInFront(map, info) == IF ~info.found THEN map ELSE <<info>> \o map
\* the body of "for icao in ICAOS": the mapping after it
ResolveStep(map, info) == IF ~info.found THEN map ELSE Append(map, info)
\* mutant: "break" in place of "continue"
ResolveNextBreak(k, info) == IF ~info.found THEN Len(ICAOS) + 1 ELSE k + 1
\* the position of "for icao in ICAOS" after the body ran at position k
ResolveNext(k, info) == k + 1

Resolve ==
  /\ pc = "resolve" /\ i <= Len(ICAOS)
  /\ LET info == pick_station_for_icao(rows, ICAOS[i]) IN
       /\ mapping' = ResolveStep(mapping, info)
       /\ i' = ResolveNext(i, info)
       /\ picked' = Append(picked, <<ICAOS[i], info>>)
  /\ UNCHANGED <<pc, run, rows, m, year, disk, url, attempt, ret, caller, gets, waits,
                 firstGood, disk0, outcome, fetched, savedBefore, pickVars>>

\* the resolve loop is over: enter the download loops
ResolveDone ==
  /\ pc = "resolve" /\ i > Len(ICAOS)
  /\ pc' = "download" /\ m' = 1 /\ year' = Min(YEARS)
  /\ UNCHANGED <<run, rows, mapping, i, disk, url, attempt, ret, caller, gets, waits,
                 firstGood, disk0, outcome, fetched, savedBefore, picked, pickVars>>

\* mutant: the size is not looked at
SkipExistingAnySize(d, fn) == d[fn].exists
\* os.path.exists(out_fn) and os.path.getsize(out_fn) > 0
SkipExisting(d, fn) == d[fn].exists /\ Len(d[fn].data) > 0

\* the next (m, year) of the nested loops
Advance ==
  IF year < Max(YEARS) THEN m' = m /\ year' = year + 1
  ELSE m' = m + 1 /\ year' = Min(YEARS)

\* the loop body up to "continue" or the call of fetch
DownloadCheck ==
  /\ pc = "download" /\ m <= Len(mapping)
  /\ LET info == mapping[m]
         fn == OutFn(info.icao, year)
     IN IF SkipExisting(disk, fn)
        THEN /\ outcome' = [outcome EXCEPT ![CurrentPair] = "Skipped"]
             /\ Advance
             /\ UNCHANGED <<pc, url, attempt, ret, caller, gets, waits, firstGood>>
        ELSE /\ CallFetch(Url(year, info.station_id), "download")
             /\ UNCHANGED <<outcome, m, year>>
  /\ UNCHANGED <<run, rows, mapping, i, disk, disk0, fetched, savedBefore, picked, pickVars>>

\* mutant: the body is trimmed before it is written
WrittenStripped(content) == Strip(content)
\* mutant: the file is opened for writing and nothing is written
WrittenNothing(content) == <<>>
\* the bytes written by open(out_fn, "wb").write(content)
Written(content) == content

\* mutant: a failed pair ends the run
AfterPairRaise(ok) == IF ok THEN "download" ELSE "fatal"
\* where main() is after the if/else on content: back at the loop, whichever branch ran
AfterPair(ok) == "download"

\* the loop body after fetch returned
DownloadReturn ==
  /\ pc = "fetch_ret" /\ caller = "download"
  /\ LET fn == OutFn(mapping[m].icao, year) IN
       IF Truthy(ret)
       THEN /\ disk' = [disk EXCEPT ![fn] = File(Written(ret.data))]
            /\ outcome' = [outcome EXCEPT ![CurrentPair] = "Saved"]
       ELSE /\ disk' = disk
            /\ outcome' = [outcome EXCEPT ![CurrentPair] = "Failed"]
  /\ pc' = AfterPair(Truthy(ret))
  /\ Advance
  /\ FetchIdle
  /\ UNCHANGED <<run, rows, mapping, i, disk0, fetched, savedBefore, picked, pickVars>>

\* print("Done:", ...)
Finish ==
  /\ pc = "download" /\ m > Len(mapping)
  /\ pc' = "done"
  /\ UNCHANGED <<run, rows, mapping, i, m, year, disk, url, attempt, ret, caller, gets,
                 waits, firstGood, disk0, outcome, fetched, savedBefore, picked, pickVars>>

\* the program is started again on the same output directory
Rerun ==
  /\ pc = "done" /\ run = 1
  /\ pc' = "start" /\ run' = run + 1
  /\ rows' = <<>> /\ mapping' = <<>> /\ i' = 0 /\ m' = 0 /\ year' = 0
  /\ disk0' = disk
  /\ savedBefore' = {p \in Pairs : outcome[p] = "Saved"}
  /\ outcome' = NoOutcome
  /\ fetched' = {}
  /\ picked' = <<>>
  /\ UNCHANGED <<disk, url, attempt, ret, caller, gets, waits, firstGood, pickVars>>

\* the output directory before the first run: empty, or holding one file left by
\* earlier use, of size 0 or not (a run itself leaves several files to the next run)
EmptyDir == [fn \in Paths |-> NoFile]
InitDisks ==
  {EmptyDir} \cup {[EmptyDir EXCEPT ![fn] = f] : fn \in Paths, f \in {File(<<>>), File(OldData)}}

PickOff ==
  /\ p_pc = "off" /\ p_rows = <<>> /\ p_icao = <<>> /\ p_best = 0 /\ p_info = None

Init ==
  /\ pc = "start" /\ run = 1
  /\ rows = <<>> /\ mapping = <<>> /\ i = 0 /\ m = 0 /\ year = 0
  /\ disk \in InitDisks
  /\ disk0 = disk
  /\ url = NoUrl /\ attempt = 0 /\ ret = NoBytes /\ caller = "none"
  /\ gets = 0 /\ waits = <<>> /\ firstGood = NoGood
  /\ outcome = NoOutcome /\ fetched = {} /\ savedBefore = {} /\ picked = <<>>
  /\ PickOff

Next ==
  \/ Start
  \/ FetchAttempt
  \/ FetchSleep
  \/ LoadReturn
  \/ Resolve
  \/ ResolveDone
  \/ DownloadCheck
  \/ DownloadReturn
  \/ Finish
  \/ Rerun

Spec == Init /\ [][Next]_vars

\* the steps of one run: the single thread always takes its next step (every GET ends,
\* by an answer or by the timeout, and every sleep ends); nobody has to run the
\* program a second time
RunStep ==
  \/ Start
  \/ FetchAttempt
  \/ FetchSleep
  \/ LoadReturn
  \/ Resolve
  \/ ResolveDone
  \/ DownloadCheck
  \/ DownloadReturn
  \/ Finish

\* a step of the run is possible exactly while it has neither finished nor aborted
Running == pc \notin {"done", "fatal"}

\* weak fairness of the run's steps, WF_vars(RunStep), with ENABLED <<RunStep>>_vars
\* written out as Running
SpecLive == Init /\ [][Next]_vars /\ ([]<>~Running \/ []<><<RunStep>>_vars)

\* ------------------------------------- pick_station_for_icao on its own
IdsGood == <<<<"7","2","5">>, <<"9","9","9","9","9">>>>
IdsBad == <<<<"A","0","0","0","1">>, <<"0","0","1","2","3">>>>
IdsLong == <<<<"1","2","3","4","5","6","7">>, <<"0","0","0","0","1">>>>
Y2018 == <<"2","0","1","8">>
Y2020 == <<"2","0","2","0">>

RowPool ==
  { MkRow(ids[1], ids[2], <<"N">>, KDAL, b, e) :
      ids \in {IdsGood, IdsBad},
      b \in {<<>>, Date(1973, 1, 1), Date(2020, 1, 1)},
      e \in {<<>>, Date(2018, 12, 31), Date(2020, 12, 31), Y2018} }
  \cup
  { MkRow(IdsLong[1], IdsLong[2], <<"N">>, KDAL, Date(1973, 1, 1), <<>>),
    MkRow(IdsGood[1], IdsGood[2], <<" ", "N">>, <<" ","k","d","a","l">>, Y2020, Date(2020, 12, 31)),
    MkRow(IdsGood[1], IdsGood[2], <<"N">>, KDAL, Date(2030, 1, 1), <<>>),
    MkRow(IdsGood[1], IdsGood[2], <<"M">>, KMDW, Date(1973, 1, 1), <<>>) }

MainOff ==
  /\ pc = "off" /\ run = 1
  /\ rows = <<>> /\ mapping = <<>> /\ i = 0 /\ m = 0 /\ year = 0
  /\ disk = EmptyDir
  /\ disk0 = disk
  /\ url = NoUrl /\ attempt = 0 /\ ret = NoBytes /\ caller = "none"
  /\ gets = 0 /\ waits = <<>> /\ firstGood = NoGood
  /\ outcome = NoOutcome /\ fetched = {} /\ savedBefore = {} /\ picked = <<>>

InitPick ==
  /\ MainOff
  /\ p_pc = "call"
  /\ p_rows \in UNION {[1..k -> RowPool] : k \in 0..MaxRows}
  /\ p_icao \in {ICAOS[k] : k \in 1..Len(ICAOS)}
  /\ p_best = 0
  /\ p_info = None

\* info = pick_station_for_icao(rows, icao)
Pick ==
  /\ p_pc = "call"
  /\ p_pc' = "returned"
  /\ p_best' = BestIndex(p_rows, p_icao)
  /\ p_info' = pick_station_for_icao(p_rows, p_icao)
  /\ UNCHANGED <<p_rows, p_icao, mainVars>>

NextPick == Pick

SpecPick == InitPick /\ [][NextPick]_vars

\* ------------------------------------------------------------ claims
Fn(p) == OutFn(p[1], p[2])
Range(f) == {f[k] : k \in DOMAIN f}
HasData(f) == f.exists /\ f.data # <<>>
InFetch == pc \in {"fetch_get", "fetch_sleep", "fetch_ret"}
\* the download loops have been entered
Downloading == pc \in {"download", "done"} \/ (InFetch /\ caller = "download")
MappedCodes == {mapping[k].icao : k \in 1..Len(mapping)}
Configured == {ICAOS[k] : k \in 1..Len(ICAOS)}
\* the codes pick_station_for_icao returned a station for, and those it did not
FoundCodes == {picked[k][1] : k \in {j \in 1..Len(picked) : picked[j][2].found}}
NotFoundCodes == {picked[k][1] : k \in {j \in 1..Len(picked) : ~picked[j][2].found}}

\* C1: a call of fetch in which no attempt got an acceptable response issues exactly
\* RETRIES GETs and returns None, and a pair whose fetch failed gets no file created.
C1_RetryExhaustion ==
  /\ (InFetch /\ firstGood.at = 0) => gets <= RETRIES
  /\ (pc = "fetch_ret" /\ firstGood.at = 0) => (gets = RETRIES /\ ret = NoBytes)
  /\ \A p \in Pairs :
       (outcome[p] = "Failed" /\ ~disk0[Fn(p)].exists) => ~disk[Fn(p)].exists
C1_Witness ==
  \E p \in Pairs :
    /\ pc = "fetch_ret" /\ caller = "download" /\ CurrentPair = p
    /\ firstGood.at = 0 /\ gets = RETRIES
    /\ ~disk[Fn(p)].exists
    /\ \E q \in Pairs : outcome[q] = "Failed" /\ ~disk[Fn(q)].exists

\* C2: a pair whose file exists with size > 0 is skipped with no GET and its file is
\* left as it was; a pair whose file is absent or of size 0 is fetched.
C2_SkipIfPresent ==
  /\ \A p \in Pairs :
       /\ outcome[p] = "Skipped" =>
            (HasData(disk0[Fn(p)]) /\ p \notin fetched /\ disk[Fn(p)] = disk0[Fn(p)])
       /\ outcome[p] \in {"Saved", "Failed"} => (~HasData(disk0[Fn(p)]) /\ p \in fetched)
  /\ (InFetch /\ caller = "download") => ~HasData(disk[Fn(CurrentPair)])
C2_Witness ==
  \E p, q \in Pairs :
    /\ outcome[p] = "Skipped" /\ HasData(disk[Fn(p)])
    /\ outcome[q] = "Saved" /\ disk0[Fn(q)] = File(<<>>)

\* C3: in a second run on the same directory no GET is issued for a pair that was
\* Saved in the first run, and once the second run has processed its mapping every
\* such pair of a mapped code is Skipped.
C3_Idempotence ==
  run = 2 =>
    \A p \in savedBefore :
      /\ p \notin fetched
      /\ outcome[p] \in {"none", "Skipped"}
      /\ (pc = "done" /\ p[1] \in MappedCodes) => outcome[p] = "Skipped"
C3_Witness ==
  /\ run = 2 /\ pc = "done"
  /\ \E p \in savedBefore : outcome[p] = "Skipped"
  /\ \E q \in Pairs : q \notin savedBefore /\ outcome[q] = "Saved"

\* the coverage years as the claims read them: the first four characters when they are
\* digits; otherwise end 9999 (active) and begin 0
CoverageEnd(row) ==
  LET e == Get(row, H_END) IN
  IF e # <<>> /\ \A k \in 1..Len(Slice(e, 0, 4)) : e[k] \in Digits THEN DecVal(Slice(e, 0, 4)) ELSE 9999
CoverageBegin(row) ==
  LET b == Get(row, H_BEGIN) IN
  IF b # <<>> /\ \A k \in 1..Len(Slice(b, 0, 4)) : b[k] \in Digits THEN DecVal(Slice(b, 0, 4)) ELSE 0
CoverageOverlaps(row) == CoverageEnd(row) >= Min(YEARS) /\ CoverageBegin(row) <= Max(YEARS)
CandidateSet(rs, icao) == {k \in 1..Len(rs) : IcaoMatches(rs[k], icao) /\ Overlaps(rs[k])}

\* C4: every row of the requested code whose coverage interval overlaps the target
\* years is a candidate, and the station returned never comes from a row whose
\* coverage interval does not overlap them.
C4_OverlapFilter ==
  p_pc = "returned" =>
    /\ \A k \in 1..Len(p_rows) :
         (IcaoMatches(p_rows[k], p_icao) /\ CoverageOverlaps(p_rows[k]))
           => k \in CandidateSet(p_rows, p_icao)
    /\ p_info.found => CoverageOverlaps(p_rows[p_best])

C6_StationIdFormat ==
  (p_pc = "returned" /\ p_info.found) =>
    /\ Len(p_info.usaf) = 6 /\ \A k \in 1..Len(p_info.usaf) : p_info.usaf[k] \in Digits
    /\ Len(p_info.wban) = 5 /\ \A k \in 1..Len(p_info.wban) : p_info.wban[k] \in Digits
    /\ p_info.station_id = p_info.usaf \o p_info.wban
    /\ Len(p_info.station_id) = 11

\* the fatal state: nothing was resolved, fetched or written in the run
C7_FatalState ==
  pc = "fatal" =>
       /\ rows = <<>> /\ mapping = <<>> /\ picked = <<>>
       /\ fetched = {} /\ disk = disk0 /\ outcome = NoOutcome
C8_AttemptSuccess ==
  /\ (pc \in {"fetch_get", "fetch_sleep"}) => (firstGood.at = 0 /\ ~ret.some)
  /\ pc = "fetch_ret" =>
       /\ ret.some <=> firstGood.at # 0
       /\ ret.some => /\ ret.data = firstGood.content
                      /\ gets = firstGood.at
                      /\ gets <= RETRIES
                      /\ Len(waits) = gets - 1
C8_Witness ==
  /\ pc = "fetch_ret" /\ ret.some /\ gets = 2 /\ Len(waits) = 1
  /\ Strip(ret.data) # ret.data

\* C9: the k-th wait lasts BACKOFF * k and waits occur only between attempts, so a
\* fetch whose RETRIES attempts all fail has waited RETRIES - 1 times when it returns.
C9_BackoffPlacement ==
  /\ \A k \in 1..Len(waits) : waits[k] = BACKOFF * k
  /\ InFetch => Len(waits) <= RETRIES - 1
  /\ (pc = "fetch_ret" /\ ~ret.some) => Len(waits) = RETRIES - 1

\* C10: every configured code is resolved, and the mapping holds exactly the codes
\* for which pick_station_for_icao returned a station; a code not found gets no GET
\* and no file, and every code found is downloaded.
C10_NotFoundRecovered ==
  Downloading =>
    /\ [k \in 1..Len(picked) |-> picked[k][1]] = ICAOS
    /\ MappedCodes = FoundCodes
    /\ \A k \in 1..Len(mapping) : <<mapping[k].icao, mapping[k]>> \in Range(picked)
    /\ \A p \in Pairs :
         /\ p[1] \notin MappedCodes =>
              (p \notin fetched /\ outcome[p] = "none" /\ disk[Fn(p)] = disk0[Fn(p)])
         /\ (pc = "done" /\ p[1] \in MappedCodes) => outcome[p] # "none"
C10_Witness ==
  /\ pc = "done" /\ MappedCodes = {KMDW}
  /\ \A y \in YEARS : outcome[<<KMDW, y>>] = "Saved"
  /\ KDAL \in NotFoundCodes
  /\ \E k \in 1..Len(rows) : IcaoMatches(rows[k], KDAL)

Outcomes == {"Saved", "Skipped", "Failed"}
\* a step of the download loops that moves on from the current pair
LeavesPair == Downloading /\ pc # "done" /\ (m' # m \/ year' # year)

\* at completion every pair of the mapping has an outcome, and no other pair has one
C11_AllProcessed ==
  pc = "done" =>
    \A p \in Pairs : IF p[1] \in MappedCodes THEN outcome[p] \in Outcomes ELSE outcome[p] = "none"
\* a pair gets its outcome when the loops leave it, it had none before, and no other
\* step gives or changes an outcome within a run
C11_OnceEach ==
  /\ LeavesPair =>
       /\ outcome[CurrentPair] = "none" /\ outcome'[CurrentPair] \in Outcomes
       /\ \A q \in Pairs \ {CurrentPair} : outcome'[q] = outcome[q]
       /\ pc' = "download"
  /\ (outcome' # outcome) => (LeavesPair \/ pc = "done")

\* C11: once the catalog has loaded the run reaches its completion report, having
\* processed every pair of mapping x YEARS exactly once with outcome Saved, Skipped or
\* Failed; a Failed pair does not stop the pairs after it.
C11_FailureDoesNotStop ==
  /\ []C11_AllProcessed
  /\ [][C11_OnceEach]_vars
  /\ (pc = "resolve") ~> (pc = "done")
C11_Witness ==
  /\ pc = "done" /\ Len(mapping) = 2
  /\ outcome[<<ICAOS[1], Min(YEARS)>>] = "Failed"
  /\ outcome[<<ICAOS[1], Max(YEARS)>>] = "Saved"
  /\ outcome[<<ICAOS[2], Min(YEARS)>>] = "Failed"
  /\ outcome[<<ICAOS[2], Max(YEARS)>>] = "Failed"

\* the station identifier the mapping holds for a code
StationIdOf(code) == mapping[CHOOSE k \in 1..Len(mapping) : mapping[k].icao = code].station_id
Y2020Text == <<"2", "0", "2", "0">>
DalStationId == <<"0", "1", "3", "9", "6", "0", "1", "3", "9", "6", "0">>
\* while fetch runs for a pair its URL is {BASE}/{year}/{station_id}.csv of that pair
C12_Request ==
  (InFetch /\ caller = "download") =>
    /\ CurrentPair[1] \in MappedCodes
    /\ url = <<BASE, "/", Str(CurrentPair[2]), "/", StationIdOf(CurrentPair[1]), ".csv">>
    /\ (CurrentPair = <<KDAL, 2020>> /\ StationIdOf(KDAL) = DalStationId)
         => url = <<BASE, "/", Y2020Text, "/", DalStationId, ".csv">>
\* a pair saved in this run has, at {OUTDIR}/{code}_{year}.csv, the body the archive
\* holds for its own year and station
C12_SavedFile ==
  Downloading =>
    \A q \in Pairs : outcome[q] = "Saved" =>
      /\ q[1] \in MappedCodes
      /\ disk[<<OUTDIR, "/", q[1], "_", Str(q[2]), ".csv">>] =
           File(<<" ">> \o Str(q[2]) \o <<",">> \o StationIdOf(q[1]) \o <<"\n">>)
\* a step that changes the directory is the pair's return from a successful fetch, and
\* it changes the pair's own file only, to the bytes returned
C12_WriteStep ==
  (disk' # disk) =>
    /\ pc = "fetch_ret" /\ caller = "download" /\ Truthy(ret)
    /\ disk'[<<OUTDIR, "/", CurrentPair[1], "_", Str(CurrentPair[2]), ".csv">>] = File(ret.data)
    /\ \A f \in Paths \ {<<OUTDIR, "/", CurrentPair[1], "_", Str(CurrentPair[2]), ".csv">>} :
         disk'[f] = disk[f]

\* C12: every observation GET of a pair goes to {BASE}/{year}/{station_id}.csv with the
\* mapping's identifier for the pair's code, the bytes of a successful response are
\* written to {OUTDIR}/{code}_{year}.csv of the same pair, and the pair creates or
\* modifies no other file.
C12_Wiring ==
  /\ []C12_Request
  /\ []C12_SavedFile
  /\ [][C12_WriteStep]_vars
C12_Witness ==
  /\ pc = "done" /\ run = 1
  /\ KDAL \in MappedCodes /\ StationIdOf(KDAL) = DalStationId
  /\ <<KDAL, 2020>> \in fetched
  /\ outcome[<<KDAL, 2020>>] = "Saved"
  /\ disk[<<OUTDIR, "/", KDAL, "_", Y2020Text, ".csv">>] =
       File(<<" ">> \o Y2020Text \o <<",">> \o DalStationId \o <<"\n">>)
  /\ \A q \in Pairs \ {<<KDAL, 2020>>} : disk[Fn(q)] = disk0[Fn(q)]

\* the top-ranked candidate: largest (end, begin) key, first in catalog order among equals
Winner(rs, icao) ==
  CHOOSE k \in CandidateSet(rs, icao) :
    \A j \in CandidateSet(rs, icao) :
      LET kk == <<CoverageEnd(rs[k]), CoverageBegin(rs[k])>>
          kj == <<CoverageEnd(rs[j]), CoverageBegin(rs[j])>>
      IN \/ kk[1] > kj[1]
         \/ kk[1] = kj[1] /\ kk[2] > kj[2]
         \/ kk = kj /\ k <= j
\* an identifier field (trimmed) brought to width w by zeros on the left
ZeroPadded(s, w) ==
  LET t == Strip(s)
      n == IF Len(t) >= w THEN 0 ELSE w - Len(t)
  IN [k \in 1..(n + Len(t)) |-> IF k <= n THEN "0" ELSE t[k - n]]
HasNonDigit(s) == \E k \in 1..Len(s) : s[k] \notin Digits
Malformed(row) ==
  \/ HasNonDigit(ZeroPadded(Get(row, H_USAF), 6))
  \/ HasNonDigit(ZeroPadded(Get(row, H_WBAN), 5))

\* C13: the result is not-found exactly when there is no candidate row or the
\* top-ranked candidate's zero-padded primary or secondary identifier has a non-digit;
\* a returned station is the top-ranked candidate's, so a lower-ranked candidate with
\* numeric identifiers is never used instead.
C13_WinnerOnly ==
  p_pc = "returned" =>
    /\ ~p_info.found <=>
         \/ CandidateSet(p_rows, p_icao) = {}
         \/ Malformed(p_rows[Winner(p_rows, p_icao)])
    /\ p_info.found =>
         /\ p_info.usaf = ZeroPadded(Get(p_rows[Winner(p_rows, p_icao)], H_USAF), 6)
         /\ p_info.wban = ZeroPadded(Get(p_rows[Winner(p_rows, p_icao)], H_WBAN), 5)
C13_Witness ==
  /\ p_pc = "returned" /\ ~p_info.found
  /\ CandidateSet(p_rows, p_icao) = {1, 2}
  /\ Winner(p_rows, p_icao) = 2
  /\ Malformed(p_rows[2]) /\ ~Malformed(p_rows[1])

\* position of a code in the configured list, and of a mapped code in the mapping
ConfigIndex(code) == CHOOSE k \in 1..Len(ICAOS) : ICAOS[k] = code
MappingIndex(code) == CHOOSE k \in 1..Len(mapping) : mapping[k].icao = code
\* the pair comes before position (m, year) of the nested loops
BeforeCurrent(p) ==
  \/ MappingIndex(p[1]) < m
  \/ MappingIndex(p[1]) = m /\ p[2] < year
CatalogPhase == pc = "start" \/ (InFetch /\ caller = "load")
\* what holds of each phase: nothing before the catalog, every code resolved (in the
\* configured order) before any observation GET, pairs done in nested order
C14_Phases ==
  /\ CatalogPhase =>
       /\ picked = <<>> /\ mapping = <<>> /\ fetched = {} /\ outcome = NoOutcome
       /\ disk = disk0
       /\ pc # "start" => url = ISD_HISTORY_URL
  /\ \A k \in 1..Len(picked) : k <= Len(ICAOS) /\ picked[k][1] = ICAOS[k]
  /\ pc = "resolve" =>
       /\ fetched = {} /\ outcome = NoOutcome
       /\ Len(picked) = Min({i, Len(ICAOS) + 1}) - 1
  /\ (fetched # {} \/ outcome # NoOutcome \/ (InFetch /\ caller = "download")) =>
       (Downloading /\ Len(picked) = Len(ICAOS))
  /\ \A a, b \in 1..Len(mapping) :
       a < b => ConfigIndex(mapping[a].icao) < ConfigIndex(mapping[b].icao)
  /\ Downloading =>
       \A p \in Pairs :
         IF p[1] \notin MappedCodes THEN p \notin fetched /\ outcome[p] = "none"
         ELSE /\ outcome[p] # "none" <=> BeforeCurrent(p)
              /\ p \in fetched =>
                   (BeforeCurrent(p) \/ (InFetch /\ m <= Len(mapping) /\ p = CurrentPair))
\* how the phases follow each other: the catalog fetch starts from the start of a run
\* only, a run never comes back to its start, and the loops move to the next pair, in
\* nested order, only when no fetch is under way
C14_Steps ==
  /\ (caller' = "load" /\ caller # "load") => (pc = "start" /\ url' = ISD_HISTORY_URL)
  /\ (pc = "start" /\ pc' # "start") => (pc' = "fetch_get" /\ caller' = "load")
  /\ (pc' = "start" /\ pc # "start") => (pc = "done" /\ run' = run + 1)
  /\ (pc' = "resolve" /\ pc # "resolve") => (pc = "fetch_ret" /\ caller = "load")
  /\ (pc' = "download" /\ ~Downloading) => (pc = "resolve" /\ i > Len(ICAOS))
  /\ (Downloading /\ pc # "done" /\ (m' # m \/ year' # year)) =>
       /\ pc \in {"download", "fetch_ret"}
       /\ IF year < Max(YEARS) THEN m' = m /\ year' = year + 1
          ELSE m' = m + 1 /\ year' = Min(YEARS)
  /\ (InFetch /\ caller = "download" /\ pc # "fetch_ret") =>
       (InFetch' /\ caller' = "download" /\ url' = url)

\* C14: in every run the catalog is fetched once and first, every configured code is
\* resolved before the first observation GET, and the pairs are processed one at a
\* time in nested order (codes in mapping order, which is the configured order, years
\* ascending), all attempts of a pair ending before the next pair starts.
C14_PhaseOrdering ==
  /\ []C14_Phases
  /\ [][C14_Steps]_vars
C14_Witness ==
  /\ pc = "fetch_get" /\ caller = "download" /\ attempt = 2
  /\ Len(mapping) = 2 /\ mapping[1].icao = ICAOS[1] /\ mapping[2].icao = ICAOS[2]
  /\ CurrentPair = <<ICAOS[2], Min(YEARS)>>
  /\ \A y \in YEARS : <<ICAOS[1], y>> \in fetched /\ outcome[<<ICAOS[1], y>>] # "none"
  /\ \A y \in YEARS : outcome[<<ICAOS[2], y>>] = "none"

\* the files the run has left: a file it created or overwrote is not empty, a saved
\* pair holds its body with the surrounding whitespace, a failed pair's file is as the
\* run found it
C15_Files ==
  /\ \A f \in Paths : disk[f] # disk0[f] => (disk[f].exists /\ Len(disk[f].data) > 0)
  /\ \A p \in Pairs :
       /\ outcome[p] = "Saved" =>
            /\ p \in fetched
            /\ disk[Fn(p)].exists /\ Len(disk[Fn(p)].data) > 0
            /\ disk[Fn(p)].data[1] \in Whitespace
            /\ disk[Fn(p)].data[Len(disk[Fn(p)].data)] \in Whitespace
            /\ \E k \in 1..Len(disk[Fn(p)].data) : disk[Fn(p)].data[k] \notin Whitespace
       /\ outcome[p] = "Failed" => (p \in fetched /\ disk[Fn(p)] = disk0[Fn(p)])
\* a file is written only by the step after fetch returned the body of an accepted
\* response, and it gets that body as received; the step after a failed fetch writes
\* nothing
C15_WriteAfterSuccess ==
  /\ (disk' # disk) =>
       /\ pc = "fetch_ret" /\ caller = "download"
       /\ ret.some /\ firstGood.at # 0
       /\ disk'[Fn(CurrentPair)] = File(firstGood.content)
       /\ Len(firstGood.content) > 0
       /\ outcome'[CurrentPair] = "Saved"
  /\ (pc = "fetch_ret" /\ caller = "download" /\ firstGood.at = 0 /\ pc' # pc) =>
       (disk' = disk /\ outcome'[CurrentPair] = "Failed")

\* C15: a file created or overwritten by the download step has size > 0 and holds the
\* untrimmed body of the successful attempt; a file is written only after fetch has
\* returned success, so a Failed pair leaves its destination as it was (absent stays
\* absent, a zero-size file stays zero-size).
C15_NeverEmpty ==
  /\ []C15_Files
  /\ [][C15_WriteAfterSuccess]_vars
C15_Witness ==
  /\ pc = "done" /\ run = 1
  /\ \E p, q, r \in Pairs :
       /\ outcome[p] = "Failed" /\ disk0[Fn(p)] = File(<<>>) /\ disk[Fn(p)] = File(<<>>)
       /\ outcome[q] = "Failed" /\ disk0[Fn(q)] = NoFile /\ disk[Fn(q)] = NoFile
       /\ outcome[r] = "Saved" /\ Strip(disk[Fn(r)].data) # disk[Fn(r)].data
====
